---- MODULE Spec2Model ----
(***************************************************************************)
(* Fibre Check Tool (fibre_assistance): the classification-and-caching     *)
(* engine of src/download.py.  The file holds three generations of the     *)
(* tool; the state machine below follows the last one ("fibre_assistance   *)
(* 3.py", lines 5061-7932) and the pure functions of the earlier ones are  *)
(* modelled beside it where they differ.                                   *)
(*                                                                         *)
(* Text is modelled as a sequence of one-character strings, so that        *)
(* startswith / in / upper / strip are computed, not assumed.              *)
(* The file system is taken to be reliable (no write or remove fails).     *)
(***************************************************************************)
EXTENDS Integers, Sequences, FiniteSets, TLC

VARIABLES
    crawl_enabled,  \* the "Connect VMR" check box
    job,            \* the inputs at hand: the CSV file's rows, the VMR page's mapped rows
    source_var,     \* the Source selector: "CSV" | "VMR"
    processed_data, \* process_data's rows while it runs (without the header row)
    pc,             \* "idle" | "load" | "crawl" | "closed": where process_data stands
    queue,          \* to_crawl entries the crawl loop has not reached yet
    index,          \* CrossSectionCache._index of self.cs_cache
    diskIndex,      \* index.json in the cache directory
    files,          \* <seg>.html files in the cache directory
    tree,           \* the rows of the result table, with row_meta
    dialog,         \* what the last handler showed: a message box or the viewer
    fetches,        \* requests.get calls per segment in this run (history)
    crawled,        \* outcome of the crawl loop per segment (history)
    scans,          \* rows_have_alert calls per (segment, tray) in this run (history)
    log_text,       \* the kinds of line self.log has written since the Process click
    close_pending,  \* a WM_DELETE_WINDOW event waits in the event queue
    arg,            \* input of the pure function under check
    ret             \* its result

vars == <<crawl_enabled, job, source_var, processed_data, pc, queue, index, diskIndex, files,
          tree, dialog, fetches, crawled, scans, log_text,
          close_pending, arg, ret>>

(***************************************************************************)
(* Text helpers (Python str methods).                                      *)
(***************************************************************************)
LowerChars ==
    <<"a","b","c","d","e","f","g","h","i","j","k","l","m",
      "n","o","p","q","r","s","t","u","v","w","x","y","z">>

UpperChars ==
    <<"A","B","C","D","E","F","G","H","I","J","K","L","M",
      "N","O","P","Q","R","S","T","U","V","W","X","Y","Z">>

UpperChar(c) ==
    IF \E i \in 1..Len(LowerChars) : LowerChars[i] = c
    THEN UpperChars[CHOOSE i \in 1..Len(LowerChars) : LowerChars[i] = c]
    ELSE c

LowerChar(c) ==
    IF \E i \in 1..Len(UpperChars) : UpperChars[i] = c
    THEN LowerChars[CHOOSE i \in 1..Len(UpperChars) : UpperChars[i] = c]
    ELSE c

Upper(s) == [i \in 1..Len(s) |-> UpperChar(s[i])]

Lower(s) == [i \in 1..Len(s) |-> LowerChar(s[i])]

StartsWith(s, p) == Len(p) <= Len(s) /\ SubSeq(s, 1, Len(p)) = p

Contains(s, p) == \E i \in 0..(Len(s) - Len(p)) : SubSeq(s, i + 1, i + Len(p)) = p

IsSpace(c) == c = " "

RECURSIVE LStrip(_)
LStrip(s) == IF s # <<>> /\ IsSpace(Head(s)) THEN LStrip(Tail(s)) ELSE s

RECURSIVE RStrip(_)
RStrip(s) ==
    IF s # <<>> /\ IsSpace(s[Len(s)]) THEN RStrip(SubSeq(s, 1, Len(s) - 1)) ELSE s

Strip(s) == RStrip(LStrip(s))

Truthy(s) == s # <<>>

(***************************************************************************)
(* Tube classification.                                                    *)
(* total_fibres is 0 when unknown: _calculate_tube maps None to 0 itself   *)
(* (total_fibres or 0), and the inline classifiers only test its truth.    *)
(***************************************************************************)
BLS == <<"B","L","S">>
FSS == <<"F","S","S">>
AJL == <<"A","J","L">>
BJL == <<"B","J","L">>
FJL == <<"F","J","L">>

_is_fss_cable(name) == Truthy(name) /\ Contains(Upper(name), FSS)

_is_bjl_splice_case_family(s) == Truthy(s) /\ (Contains(Upper(s), BJL) \/ Contains(Upper(s), FJL))

_is_bjl_splice_case(s) == Truthy(s) /\ Contains(Upper(s), BJL)

EndType(e) ==
    IF Contains(e, AJL) THEN "AJL"
    ELSE IF Contains(e, BJL) THEN "BJL"
    ELSE IF Contains(e, FJL) THEN "FJL"
    ELSE "None"

BandTrunk == 24
FullCable == 144

BjlFamily(at, bt) ==
    \/ (at = "BJL" /\ bt = "BJL")
    \/ (at = "FJL" /\ bt = "BJL")
    \/ (at = "BJL" /\ bt = "FJL")

AjlBjl_anyAjl(at, bt) == at = "AJL" \/ bt = "AJL"

AjlBjl(at, bt) ==
    \/ (at = "AJL" /\ bt = "BJL")
    \/ (at = "BJL" /\ bt = "AJL")

\* lines 6958-6963: the banding of a backbone cable
BlsBranch(total_fibres, selected_fibre) ==
    IF selected_fibre <= BandTrunk THEN "Trunk"
    ELSE IF selected_fibre > total_fibres - BandTrunk THEN "Local"
    ELSE "Junction"

BjlBranch_unguarded(total_fibres, selected_fibre) ==
    IF selected_fibre <= BandTrunk THEN "Trunk"
    ELSE IF selected_fibre > total_fibres - BandTrunk THEN "Local"
    ELSE "Junction"

BjlBranch_localFirst(total_fibres, selected_fibre) ==
    IF total_fibres # 0 /\ selected_fibre > total_fibres - BandTrunk THEN "Local"
    ELSE IF selected_fibre <= BandTrunk THEN "Trunk"
    ELSE "Junction"

\* lines 6971-6976: the banding of a BJL-family pair
BjlBranch(total_fibres, selected_fibre) ==
    IF selected_fibre <= BandTrunk THEN "Trunk"
    ELSE IF total_fibres # 0 /\ selected_fibre > total_fibres - BandTrunk THEN "Local"
    ELSE "Junction"

AjlBranch_oneBand(total_fibres, selected_fibre) ==
    IF selected_fibre # 0 /\ total_fibres # 0
       /\ selected_fibre > total_fibres - BandTrunk
    THEN "Local" ELSE "Junction"

AjlBranch_upperHalf(total_fibres, selected_fibre) ==
    IF total_fibres = FullCable
    THEN IF (61 <= selected_fibre /\ selected_fibre <= 72)
            \/ (121 <= selected_fibre /\ selected_fibre <= 144)
         THEN "Local" ELSE "Junction"
    ELSE IF selected_fibre # 0 /\ total_fibres # 0
            /\ selected_fibre > total_fibres - BandTrunk
         THEN "Local" ELSE "Junction"

\* lines 6979-6988: an AJL/BJL pair
AjlBranch(total_fibres, selected_fibre) ==
    IF total_fibres = FullCable
    THEN IF (49 <= selected_fibre /\ selected_fibre <= 72)
            \/ (121 <= selected_fibre /\ selected_fibre <= 144)
         THEN "Local" ELSE "Junction"
    ELSE IF selected_fibre # 0 /\ total_fibres # 0
            /\ selected_fibre > total_fibres - BandTrunk
         THEN "Local" ELSE "Junction"

\* lines 6947-6988 (and 1353-1383, 3947-3984): steps 1 and 2
TubeRule(fibre_cable, total_fibres, selected_fibre, a_end, b_end) ==
    IF StartsWith(fibre_cable, BLS) /\ total_fibres # 0 /\ total_fibres >= FullCable
    THEN BlsBranch(total_fibres, selected_fibre)
    ELSE IF BjlFamily(EndType(a_end), EndType(b_end))
         THEN BjlBranch(total_fibres, selected_fibre)
         ELSE IF AjlBjl(EndType(a_end), EndType(b_end))
              THEN AjlBranch(total_fibres, selected_fibre)
              ELSE "Non-CAN2000"

\* lines 6942-6995
_calculate_tube(fibre_cable, total_fibres, selected_fibre, a_end, b_end) ==
    IF _is_fss_cable(fibre_cable)
       /\ ~(_is_bjl_splice_case(a_end) /\ _is_bjl_splice_case(b_end))
    THEN "Non-CAN2000"
    ELSE TubeRule(fibre_cable, total_fibres, selected_fibre, a_end, b_end)

\* lines 1353-1383: the classifier written out in the first process_csv
\* (no secondary-system override: "FSS override removed")
InlineTube(fibre_cable, total_fibres, selected_fibre, a_end, b_end) ==
    IF StartsWith(fibre_cable, BLS) /\ total_fibres # 0 /\ total_fibres >= 144
    THEN (IF selected_fibre <= 24 THEN "Trunk"
          ELSE IF selected_fibre > total_fibres - 24 THEN "Local"
          ELSE "Junction")
    ELSE LET a_end_type == EndType(a_end)
             b_end_type == EndType(b_end)
         IN  IF (a_end_type = "BJL" /\ b_end_type = "BJL")
                \/ (a_end_type = "FJL" /\ b_end_type = "BJL")
                \/ (a_end_type = "BJL" /\ b_end_type = "FJL")
             THEN (IF selected_fibre <= 24 THEN "Trunk"
                   ELSE IF total_fibres # 0 /\ selected_fibre > total_fibres - 24
                        THEN "Local"
                        ELSE "Junction")
             ELSE IF (a_end_type = "AJL" /\ b_end_type = "BJL")
                     \/ (a_end_type = "BJL" /\ b_end_type = "AJL")
                  THEN (IF total_fibres = 144
                        THEN (IF (49 <= selected_fibre /\ selected_fibre <= 72)
                                 \/ (121 <= selected_fibre /\ selected_fibre <= 144)
                              THEN "Local" ELSE "Junction")
                        ELSE (IF selected_fibre # 0 /\ total_fibres # 0
                                 /\ selected_fibre > total_fibres - 24
                              THEN "Local" ELSE "Junction"))
                  ELSE "Non-CAN2000"

\* lines 3947-3984: the same written out in the second process_csv, with
\* the secondary-system exception after it
InlineTubeFss(fibre_cable, total_fibres, selected_fibre, a_end, b_end) ==
    IF _is_fss_cable(fibre_cable)
       /\ ~(_is_bjl_splice_case(a_end) /\ _is_bjl_splice_case(b_end))
    THEN "Non-CAN2000"
    ELSE InlineTube(fibre_cable, total_fibres, selected_fibre, a_end, b_end)

(***************************************************************************)
(* Field extraction (process_csv, _normalize_vmr_rows, process_data).      *)
(***************************************************************************)
Digits == <<"0","1","2","3","4","5","6","7","8","9">>

IsDigit(c) == \E d \in 1..10 : Digits[d] = c

DigitVal(c) == (CHOOSE d \in 1..10 : Digits[d] = c) - 1

RECURSIVE IntOf(_)
IntOf(ds) ==
    IF ds = <<>> THEN 0
    ELSE IntOf(SubSeq(ds, 1, Len(ds) - 1)) * 10 + DigitVal(ds[Len(ds)])

Max(a, b) == IF a >= b THEN a ELSE b

Min(a, b) == IF a <= b THEN a ELSE b

\* str.index / str.find, 1-based; 0 when c does not occur
Find(s, c) ==
    IF \E i \in 1..Len(s) : s[i] = c
    THEN CHOOSE i \in 1..Len(s) : s[i] = c /\ \A j \in 1..(i - 1) : s[j] # c
    ELSE 0

\* first position >= i that holds no blank (Len(s) + 1 when there is none)
SkipSpaces(s, i) ==
    CHOOSE j \in i..(Len(s) + 1) :
        /\ (j <= Len(s) => ~IsSpace(s[j]))
        /\ \A k \in i..(j - 1) : IsSpace(s[k])

\* first position >= i that holds no digit
DigitsEnd(s, i) ==
    CHOOSE j \in i..(Len(s) + 1) :
        /\ (j <= Len(s) => ~IsDigit(s[j]))
        /\ \A k \in i..(j - 1) : IsDigit(s[k])

\* re.search(r'\(#\s*(\d+)\s*\)', s) matching at position i
TokAt(s, i) ==
    /\ i + 1 <= Len(s)
    /\ s[i] = "(" /\ s[i + 1] = "#"
    /\ LET j == SkipSpaces(s, i + 2)
           k == DigitsEnd(s, j)
           l == SkipSpaces(s, k)
       IN  k > j /\ l <= Len(s) /\ s[l] = ")"

HasTok(s) == \E i \in 1..Len(s) : TokAt(s, i)

TokValue(s) ==
    LET i == CHOOSE i \in 1..Len(s) : TokAt(s, i) /\ \A h \in 1..(i - 1) : ~TokAt(s, h)
        j == SkipSpaces(s, i + 2)
    IN  IntOf(SubSeq(s, j, DigitsEnd(s, j) - 1))

SelectedFibre_one(fibre_cable) == IF HasTok(fibre_cable) THEN TokValue(fibre_cable) ELSE 1

\* lines 7075-7079 (and 7402-7403): the N of "(#N)", 0 without one
SelectedFibre(fibre_cable) == IF HasTok(fibre_cable) THEN TokValue(fibre_cable) ELSE 0

\* lines 7053-7057: keep the name up to the first ")"
CleanCable(fibre_cable_raw) ==
    IF Find(fibre_cable_raw, ")") # 0
    THEN SubSeq(fibre_cable_raw, 1, Find(fibre_cable_raw, ")"))
    ELSE fibre_cable_raw

\* lines 7062-7070: drop the character after the first "t" unless it is a blank
CleanConnect(raw) ==
    LET t == Find(raw, "t")
    IN  IF t # 0 /\ t < Len(raw) /\ raw[t + 1] # " "
        THEN SubSeq(raw, 1, t) \o SubSeq(raw, t + 2, Len(raw))
        ELSE raw

\* re.search(r'(\d+\.?\d*)m, (\d+)fibres', cell): p is where "m, " starts
FibresAt(s, p) ==
    /\ p >= 2 /\ p + 2 <= Len(s)
    /\ s[p] = "m" /\ s[p + 1] = "," /\ s[p + 2] = " "
    /\ (IsDigit(s[p - 1]) \/ (p >= 3 /\ s[p - 1] = "." /\ IsDigit(s[p - 2])))
    /\ LET k == DigitsEnd(s, p + 3)
       IN  k > p + 3 /\ StartsWith(SubSeq(s, k, Len(s)), <<"f","i","b","r","e","s">>)

\* lines 7083-7090: total fibres from the third row of a section, 0 if unknown
TotalFibres(cable_section) ==
    IF Len(cable_section) >= 3 /\ Len(cable_section[3]) >= 3
       /\ \E p \in 1..Len(cable_section[3][3]) : FibresAt(cable_section[3][3], p)
    THEN LET s == cable_section[3][3]
             p == CHOOSE p \in 1..Len(s) :
                      FibresAt(s, p) /\ \A h \in 1..(p - 1) : ~FibresAt(s, h)
         IN  IntOf(SubSeq(s, p + 3, DigitsEnd(s, p + 3) - 1))
    ELSE 0

(***************************************************************************)
(* Tray ranges.  A tray "start-end" is <<start, end>>, the empty string    *)
(* is <<>>.                                                                *)
(***************************************************************************)
TraySize == 6

TrayOf(n) == LET start == ((n - 1) \div TraySize) * TraySize + 1 IN <<start, start + 5>>

\* lines 7099-7101 (process_csv; also 1386-1388 and 3988-3990)
CsvTray(selected_fibre) == TrayOf(Max(selected_fibre, 1))

\* lines 7416-7421 (_normalize_vmr_rows)
VmrTray(conn, sel) == IF Truthy(Strip(conn)) /\ sel > 0 THEN TrayOf(sel) ELSE <<>>

\* lines 7515-7524 (process_data, third generation)
_derive_tray(fibre_cable) ==
    IF HasTok(fibre_cable) /\ TokValue(fibre_cable) > 0
    THEN TrayOf(TokValue(fibre_cable))
    ELSE <<>>

\* lines 4418-4425 (process_data, second generation)
_tray_from_cable_name(cable_name) ==
    IF ~HasTok(cable_name) THEN <<>> ELSE TrayOf(TokValue(cable_name))

(***************************************************************************)
(* Cross-section pages.  A page is [blank, grid, trs]: whether the text is *)
(* empty, whether it holds a table GridView2, and that table's rows, each  *)
(* [thead, cells] with cells a sequence of <<tag, text>>.                  *)
(***************************************************************************)
RECURSIVE Flatten(_)
Flatten(ss) == IF ss = <<>> THEN <<>> ELSE Head(ss) \o Flatten(Tail(ss))

IsTh(cell) == cell[1] = "th"

IsTd(cell) == cell[1] = "td"

CellTexts(cells) == [i \in 1..Len(cells) |-> Strip(cells[i][2])]

\* lines 5378-5409
parse_gridview2(page) ==
    IF ~page.grid THEN [headers |-> <<>>, rows |-> <<>>]
    ELSE LET trs == page.trs
             theadRows == SelectSeq(trs, LAMBDA tr : tr.thead)
             ths == Flatten([i \in 1..Len(theadRows) |->
                                CellTexts(SelectSeq(theadRows[i].cells, IsTh))])
             headers == IF ths # <<>> THEN ths
                        ELSE IF trs # <<>> THEN CellTexts(trs[1].cells)
                        ELSE <<>>
             bodyRows == SelectSeq(trs, LAMBDA tr : SelectSeq(tr.cells, IsTd) # <<>>)
         IN  [headers |-> headers,
              rows |-> [i \in 1..Len(bodyRows) |->
                           CellTexts(SelectSeq(bodyRows[i].cells, IsTd))]]

filter_rows_by_tray_range_fromStart(rows, tray_range_text) ==
    IF tray_range_text = <<>> THEN rows
    ELSE SubSeq(rows, 1, Min(Len(rows), Max(tray_range_text[1], tray_range_text[2])))

\* lines 5412-5427; "start-end" matches ^\s*(\d+)\s*-\s*(\d+)\s*$ only when
\* neither number carries a sign
filter_rows_by_tray_range(rows, tray_range_text) ==
    IF tray_range_text = <<>> THEN rows
    ELSE IF tray_range_text[1] < 0 \/ tray_range_text[2] < 0 THEN <<>>
    ELSE LET a0 == Min(tray_range_text[1], tray_range_text[2])
             b0 == Max(tray_range_text[1], tray_range_text[2])
             a == Max(1, a0)
             b == Min(Len(rows), b0)
         IN  IF a > b THEN <<>> ELSE SubSeq(rows, a, b)

OsName == <<"o","s"," ","n","a","m","e">>
BearerId == <<"b","e","a","r","e","r"," ","i","d">>
TrunkPrefix == <<"T","_">>
OTS == <<"O","T","S">>
DWDM == <<"D","W","D","M">>

\* colmap = {h.lower(): i ...}.get(name): the last header of that name, 0 if none
ColIdx(headers, name) ==
    IF \E i \in 1..Len(headers) : Lower(headers[i]) = name
    THEN CHOOSE i \in 1..Len(headers) :
             /\ Lower(headers[i]) = name
             /\ \A j \in (i + 1)..Len(headers) : Lower(headers[j]) # name
    ELSE 0

CellAt(r, idx) == IF idx # 0 /\ idx <= Len(r) THEN Upper(Strip(r[idx])) ELSE <<>>

RowAlert_bearerOnly(headers, r) ==
    LET bearer == CellAt(r, ColIdx(headers, BearerId))
    IN  Contains(bearer, OTS) \/ Contains(bearer, DWDM)

\* lines 5437-5442: one row of the loop
RowAlert(headers, r) ==
    LET os_name == CellAt(r, ColIdx(headers, OsName))
        bearer == CellAt(r, ColIdx(headers, BearerId))
    IN  \/ StartsWith(os_name, TrunkPrefix)
        \/ Contains(bearer, OTS)
        \/ Contains(bearer, DWDM)

\* lines 5429-5443
RECURSIVE rows_have_alert(_, _)
rows_have_alert(headers, rows_subset) ==
    IF rows_subset = <<>> THEN FALSE
    ELSE IF RowAlert(headers, Head(rows_subset)) THEN TRUE
    ELSE rows_have_alert(headers, Tail(rows_subset))

(***************************************************************************)
(* CrossSectionCache (lines 5448-5596).  A cache is [index, disk, files]:  *)
(* _index in memory, index.json on disk, and the <seg>.html files, each    *)
(* named here by the page it holds.                                        *)
(***************************************************************************)
EmptyCache == [index |-> <<>>, disk |-> <<>>, files |-> <<>>]

Put(f, k, v) == [x \in DOMAIN f \cup {k} |-> IF x = k THEN v ELSE f[x]]

clear_indexOnly(c) == [index |-> <<>>, disk |-> c.disk, files |-> c.files]

\* lines 5488-5500: remove every file of the directory (index.json with
\* them), empty _index and save it
clear(c) == [index |-> <<>>, disk |-> <<>>, files |-> <<>>]

\* lines 5449-5465: a new cache on the same directory loads index.json
CrossSectionCache(c) == [c EXCEPT !.index = c.disk]

get_html_miss(c, seg_id) == "none"

\* lines 5527-5552: "none" stands for None
get_html(c, seg_id) == IF seg_id \in DOMAIN c.files THEN c.files[seg_id] ELSE "none"

\* lines 5592-5596
tray_has_alert(c, seg_id, tray_str) ==
    /\ seg_id \in DOMAIN c.index
    /\ tray_str \in DOMAIN c.index[seg_id].has_alert_by_tray
    /\ c.index[seg_id].has_alert_by_tray[tray_str]

set_tray_alert_creates(c, seg_id, tray_str, flag) ==
    LET meta == IF seg_id \in DOMAIN c.index THEN c.index[seg_id]
                ELSE [headers |-> <<>>, rows_len |-> 0, has_alert_by_tray |-> <<>>]
        idx == Put(c.index, seg_id,
                   [meta EXCEPT !.has_alert_by_tray = Put(@, tray_str, flag)])
    IN  [c EXCEPT !.index = idx, !.disk = idx]

\* lines 5586-5590
set_tray_alert(c, seg_id, tray_str, flag) ==
    IF seg_id \in DOMAIN c.index
    THEN LET idx == [c.index EXCEPT ![seg_id].has_alert_by_tray =
                        Put(@, tray_str, flag)]
         IN  [c EXCEPT !.index = idx, !.disk = idx]
    ELSE c

(***************************************************************************)
(* The pages the cross-section server answers with, by name.  "grid" is a  *)
(* GridView2 table of PageRows rows whose row AlertRow names a trunk       *)
(* system.                                                                 *)
(***************************************************************************)
PageRows == 8
AlertRow == 2

HeaderTr ==
    [thead |-> TRUE,
     cells |-> << <<"th", <<"O","S"," ","N","a","m","e">> >>,
                  <<"th", <<"B","e","a","r","e","r"," ","I","D">> >> >>]

BodyTr(i) ==
    [thead |-> FALSE,
     cells |-> << <<"td", IF i = AlertRow THEN <<"T","_","1">> ELSE <<"R","1">> >>,
                  <<"td", <<"G","E">> >> >>]

Pages == {"blank", "notable", "grid"}

PageText(html) ==
    CASE html = "grid"    -> [blank |-> FALSE, grid |-> TRUE,
                              trs |-> <<HeaderTr>> \o [i \in 1..PageRows |-> BodyTr(i)]]
      [] html = "notable" -> [blank |-> FALSE, grid |-> FALSE, trs |-> <<>>]
      [] OTHER            -> [blank |-> TRUE, grid |-> FALSE, trs |-> <<>>]

\* "not html_text": None or the empty string
HtmlTruthy(html) == html # "none" /\ ~PageText(html).blank

EmptyMeta == [headers |-> <<>>, rows_len |-> 0, has_alert_by_tray |-> <<>>]

Meta(c, seg_id) == IF seg_id \in DOMAIN c.index THEN c.index[seg_id] ELSE EmptyMeta

\* self._index[seg_id] = meta; self._save_index()
SetMeta(c, seg_id, meta) ==
    LET idx == Put(c.index, seg_id, meta)
    IN  [c EXCEPT !.index = idx, !.disk = idx]

\* lines 5502-5517: the cache after put_html
put_html(c, seg_id, html_text) ==
    LET parsed == parse_gridview2(PageText(html_text))
        stored == [c EXCEPT !.files = Put(c.files, seg_id, html_text)]
    IN  SetMeta(stored, seg_id,
                [headers |-> parsed.headers, rows_len |-> Len(parsed.rows),
                 has_alert_by_tray |-> <<>>])

\* lines 5554-5568: the cache after headers_for
headers_for(c, seg_id) ==
    IF Meta(c, seg_id).headers # <<>> THEN c
    ELSE IF ~HtmlTruthy(get_html(c, seg_id)) THEN c
    ELSE LET parsed == parse_gridview2(PageText(get_html(c, seg_id)))
         IN  SetMeta(c, seg_id, [Meta(c, seg_id) EXCEPT
                                    !.headers = parsed.headers,
                                    !.rows_len = Len(parsed.rows)])

rows_for_restore(c, seg_id) ==
    IF ~HtmlTruthy(get_html(c, seg_id)) THEN c
    ELSE put_html(c, seg_id, get_html(c, seg_id))

\* lines 5570-5584: the cache after rows_for
rows_for(c, seg_id) ==
    IF ~HtmlTruthy(get_html(c, seg_id)) THEN c
    ELSE LET parsed == parse_gridview2(PageText(get_html(c, seg_id)))
         IN  SetMeta(c, seg_id, [Meta(c, seg_id) EXCEPT
                                    !.headers = IF parsed.headers # <<>>
                                                THEN parsed.headers ELSE @,
                                    !.rows_len = Len(parsed.rows)])

(***************************************************************************)
(* The pipeline's variables while a pure function is under check.          *)
(***************************************************************************)
NoJob == [data |-> <<>>, mapped |-> <<>>]

Parked ==
    /\ crawl_enabled = TRUE
    /\ job = NoJob
    /\ source_var = "CSV"
    /\ processed_data = <<>>
    /\ queue = <<>>
    /\ index = <<>>
    /\ diskIndex = <<>>
    /\ files = <<>>
    /\ tree = <<>>
    /\ dialog = "none"
    /\ fetches = <<>>
    /\ crawled = <<>>
    /\ scans = <<>>
    /\ log_text = {}
    /\ close_pending = FALSE

PipelineVars ==
    <<crawl_enabled, job, source_var, processed_data, queue, index, diskIndex,
      files, tree, dialog, fetches, crawled, scans, log_text, close_pending>>

(***************************************************************************)
(* SpecTube: the classifier applied to every combination of a bounded set  *)
(* of cable names, end points, cable sizes and fibre numbers.              *)
(***************************************************************************)
MaxFibre == 150

TubeNames ==
    { <<"B","L","S","1">>, <<"3","3","U","A","B","L","S">>, <<"C","1">>,
      <<"C","F","S","S">>, <<"B","L","S","f","s","s">> }

TubeEnds ==
    { <<"1","2","A","J","L","-","X">>, <<"3","4","B","J","L","-","Y">>,
      <<"5","F","J","L">>, <<"M","H","9">>, <<"b","j","l">>,
      <<"A","J","L","/","B","J","L">> }

TubeTotals == {0, 12, 96, FullCable, MaxFibre}

TubeArgs ==
    [fibre_cable : TubeNames, total_fibres : TubeTotals,
     selected_fibre : 0..MaxFibre, a_end : TubeEnds, b_end : TubeEnds]

InitTube ==
    /\ Parked
    /\ pc = "call"
    /\ arg \in TubeArgs
    /\ ret = [tube |-> "", inline |-> "", inline_fss |-> ""]

Classify ==
    /\ pc = "call"
    /\ pc' = "done"
    /\ ret' = [tube |-> _calculate_tube(arg.fibre_cable, arg.total_fibres,
                            arg.selected_fibre, arg.a_end, arg.b_end),
               inline |-> InlineTube(arg.fibre_cable, arg.total_fibres,
                            arg.selected_fibre, arg.a_end, arg.b_end),
               inline_fss |-> InlineTubeFss(arg.fibre_cable, arg.total_fibres,
                            arg.selected_fibre, arg.a_end, arg.b_end)]
    /\ UNCHANGED <<arg, PipelineVars>>

NextTube == Classify

SpecTube == InitTube /\ [][NextTube]_vars

Step1Applies(a) ==
    StartsWith(a.fibre_cable, BLS) /\ a.total_fibres >= 144

HasFssMarker(a) == Contains(Upper(a.fibre_cable), FSS)

\* C9: for a backbone cable (BLS prefix) of at least 144 fibres, and otherwise
\* for an end-point pair typed BJL/BJL, FJL/BJL or BJL/FJL, with no FSS marker
\* in the name, the tube is Trunk when selectedFibre <= 24, else Local when
\* totalFibres is known and selectedFibre > totalFibres - 24, else Junction
\* (in the centralized classifier and in the inline one alike).
C9_ThreeWayBanding ==
    (pc = "done" /\ ~HasFssMarker(arg)
     /\ (Step1Applies(arg) \/ BjlFamily(EndType(arg.a_end), EndType(arg.b_end))))
    => LET expected ==
               IF arg.selected_fibre <= 24 THEN "Trunk"
               ELSE IF arg.total_fibres > 0
                       /\ arg.selected_fibre > arg.total_fibres - 24 THEN "Local"
               ELSE "Junction"
       IN  ret.tube = expected /\ ret.inline = expected

C9_Witness ==
    /\ pc = "done"
    /\ ~HasFssMarker(arg)
    /\ ~Step1Applies(arg)
    /\ EndType(arg.a_end) = "FJL" /\ EndType(arg.b_end) = "BJL"
    /\ arg.total_fibres = 96 /\ arg.selected_fibre = 73
    /\ ret.tube = "Local"

\* C10 as claimed: for an AJL/BJL pair outside step 1 the tube is Local exactly
\* for 49..72 and 121..144 when totalFibres = 144, and for any other totalFibres
\* Local when selectedFibre > totalFibres - 24 and Junction otherwise.
C10_AsClaimed ==
    (pc = "done" /\ ~Step1Applies(arg)
     /\ AjlBjl(EndType(arg.a_end), EndType(arg.b_end)) /\ arg.total_fibres > 0)
    => ret.tube =
           IF arg.total_fibres = 144
           THEN (IF arg.selected_fibre \in (49..72) \cup (121..144)
                 THEN "Local" ELSE "Junction")
           ELSE (IF arg.selected_fibre > arg.total_fibres - 24
                 THEN "Local" ELSE "Junction")

\* C10 (amended): for an AJL/BJL pair outside step 1, in a cable whose name
\* carries no FSS marker: with totalFibres = 144 the tube is Local exactly for
\* selectedFibre in 49..72 or 121..144; with any other known totalFibres it is
\* Local when selectedFibre >= 1 and selectedFibre > totalFibres - 24; in every
\* other case (selectedFibre = 0 or totalFibres unknown included) it is
\* Junction.  It is never Trunk.
C10_AjlBjlBanding ==
    (pc = "done" /\ ~Step1Applies(arg) /\ ~HasFssMarker(arg)
     /\ AjlBjl(EndType(arg.a_end), EndType(arg.b_end)))
    => LET expected ==
               IF arg.total_fibres = 144
               THEN (IF arg.selected_fibre \in (49..72) \cup (121..144)
                     THEN "Local" ELSE "Junction")
               ELSE (IF arg.total_fibres > 0 /\ arg.selected_fibre >= 1
                        /\ arg.selected_fibre > arg.total_fibres - 24
                     THEN "Local" ELSE "Junction")
       IN  ret.tube = expected /\ ret.inline = expected /\ ret.tube # "Trunk"

C10_Witness ==
    /\ pc = "done"
    /\ ~Step1Applies(arg) /\ ~HasFssMarker(arg)
    /\ EndType(arg.a_end) = "BJL" /\ EndType(arg.b_end) = "AJL"
    /\ arg.total_fibres = 12 /\ arg.selected_fibre = 0
    /\ ret.tube = "Junction"

\* C11 as claimed: in a cable whose name carries the FSS marker the tube is
\* Non-CAN2000 unless the end points are a BJL-family pair (BJL/BJL, FJL/BJL,
\* BJL/FJL), in which case the result of steps 1-2 stands.
C11_AsClaimed ==
    (pc = "done" /\ HasFssMarker(arg))
    => ret.tube = IF BjlFamily(EndType(arg.a_end), EndType(arg.b_end))
                  THEN ret.inline ELSE "Non-CAN2000"

NamesBjl(e) == Contains(Upper(e), BJL)

\* C11 (amended): in a cable whose name carries the FSS marker (in any case)
\* the tube is Non-CAN2000 unless both end points hold the token BJL (in any
\* case), in which case the result of steps 1-2 stands unchanged; a pair
\* FJL/BJL or BJL/FJL is forced to Non-CAN2000 like BJL/AJL.
C11_FssOverride ==
    (pc = "done" /\ HasFssMarker(arg))
    => ret.tube = IF NamesBjl(arg.a_end) /\ NamesBjl(arg.b_end)
                  THEN ret.inline ELSE "Non-CAN2000"

C11_Witness ==
    /\ pc = "done"
    /\ HasFssMarker(arg)
    /\ EndType(arg.a_end) = "BJL" /\ EndType(arg.b_end) = "AJL"
    /\ ~NamesBjl(arg.b_end)
    /\ ret.inline = "Local"
    /\ ret.tube = "Non-CAN2000"

\* the example of the classification table: 12AJL-X / 34BJL-Y, 144 fibres,
\* a cable name with neither the BLS prefix nor the FSS marker
TableExample ==
    /\ pc = "done"
    /\ arg.a_end = <<"1","2","A","J","L","-","X">>
    /\ arg.b_end = <<"3","4","B","J","L","-","Y">>
    /\ arg.total_fibres = 144
    /\ ~StartsWith(arg.fibre_cable, BLS)
    /\ ~HasFssMarker(arg)

\* C12 as claimed: in the table example the tube is Junction for
\* selectedFibre = 60 and Local for selectedFibre = 70.
C12_AsClaimed ==
    TableExample =>
        /\ (arg.selected_fibre = 60 => ret.tube = "Junction")
        /\ (arg.selected_fibre = 70 => ret.tube = "Local")

\* C12 (amended): in the table example the tube is Local for selectedFibre =
\* 60 and for selectedFibre = 70 alike (both lie in 49..72), and Junction for
\* selectedFibre = 48 and 73, the neighbours of that band.
C12_TableExample ==
    TableExample =>
        /\ (arg.selected_fibre \in {60, 70} => ret.tube = "Local")
        /\ (arg.selected_fibre \in {48, 73} => ret.tube = "Junction")

C12_Witness ==
    /\ TableExample
    /\ arg.selected_fibre = 60
    /\ ret.tube = "Local"
    /\ ret.inline = "Local"

BandedPairs ==
    { <<"BJL","BJL">>, <<"FJL","BJL">>, <<"BJL","FJL">>, <<"AJL","BJL">>, <<"BJL","AJL">> }

\* C13: outside step 1, every pair of end-point types other than BJL/BJL,
\* FJL/BJL, BJL/FJL, AJL/BJL and BJL/AJL gives Non-CAN2000, whatever the
\* fibre and the cable size (in the centralized and the inline classifier).
C13_OtherPairs ==
    (pc = "done" /\ ~Step1Applies(arg)
     /\ <<EndType(arg.a_end), EndType(arg.b_end)>> \notin BandedPairs)
    => ret.tube = "Non-CAN2000" /\ ret.inline = "Non-CAN2000"

C13_Witness ==
    /\ pc = "done"
    /\ ~Step1Applies(arg)
    /\ EndType(arg.a_end) = "AJL" /\ EndType(arg.b_end) = "FJL"
    /\ arg.total_fibres = 96 /\ arg.selected_fibre = 80
    /\ ret.tube = "Non-CAN2000"

\* C25: classify is total: for every cable name, pair of ends, selected
\* fibre and cable size (known or not) it returns one of Trunk, Junction,
\* Local, Non-CAN2000; with the size unknown no branch measures the fibre
\* against size - 24, so that no fibre is banded Local (in the centralized
\* and the inline classifier).
C25_Total ==
    pc = "done" =>
        /\ {ret.tube, ret.inline} \subseteq {"Trunk", "Junction", "Local", "Non-CAN2000"}
        /\ (arg.total_fibres = 0 => ret.tube # "Local" /\ ret.inline # "Local")

C25_Witness ==
    /\ pc = "done"
    /\ arg.total_fibres = 0
    /\ StartsWith(arg.fibre_cable, BLS)
    /\ arg.selected_fibre > FullCable - BandTrunk
    /\ ret.tube = "Junction"

\* C28: the centralized classifier returns the category of the inline
\* classifier of process_csv for every name, pair of ends, fibre and size.
C28_AsClaimed ==
    pc = "done" => ret.tube = ret.inline /\ ret.tube = ret.inline_fss

\* C28 as amended: it matches the inline classifier of the second
\* process_csv, which ends with the secondary-system exception, for every
\* input, and the one of the first process_csv, which has no such
\* exception, wherever the name carries no FSS marker or both ends name BJL.
C28_MatchesInline ==
    pc = "done" =>
        /\ ret.tube = ret.inline_fss
        /\ (~HasFssMarker(arg) \/ (NamesBjl(arg.a_end) /\ NamesBjl(arg.b_end))
                => ret.tube = ret.inline)

C28_Witness ==
    /\ pc = "done"
    /\ HasFssMarker(arg)
    /\ ~NamesBjl(arg.a_end)
    /\ NamesBjl(arg.b_end)
    /\ ret.inline = "Local"
    /\ ret.inline_fss = "Non-CAN2000"
    /\ ret.tube = "Non-CAN2000"

(***************************************************************************)
(* SpecTray: every place that derives a tray range from a selected fibre,  *)
(* applied to cable names with and without a "(#N)" token.                 *)
(***************************************************************************)
RECURSIVE DigitsOf(_)
DigitsOf(n) ==
    IF n < 10 THEN <<Digits[n + 1]>> ELSE DigitsOf(n \div 10) \o <<Digits[(n % 10) + 1]>>

CableBases == { <<"C","1">>, <<"B","L","S","2">> }

NameWithTok(base, n) == base \o <<"(","#">> \o DigitsOf(n) \o <<")">>

TrayNames ==
    CableBases \cup { NameWithTok(b, n) : b \in CableBases, n \in 0..MaxFibre }

TrayArgs == [fibre_cable : TrayNames, conn : { <<>>, <<" ">>, <<"1",":","2">> }]

NoTrays == [csv |-> <<>>, vmr |-> <<>>, derive |-> <<>>, byname |-> <<>>]

InitTray ==
    /\ Parked
    /\ pc = "call"
    /\ arg \in TrayArgs
    /\ ret = NoTrays

DeriveTrays ==
    /\ pc = "call"
    /\ pc' = "done"
    /\ ret' = [csv    |-> CsvTray(SelectedFibre(arg.fibre_cable)),
               vmr    |-> VmrTray(arg.conn, SelectedFibre(arg.fibre_cable)),
               derive |-> _derive_tray(arg.fibre_cable),
               byname |-> _tray_from_cable_name(arg.fibre_cable)]
    /\ UNCHANGED <<arg, PipelineVars>>

NextTray == DeriveTrays

SpecTray == InitTray /\ [][NextTray]_vars

TrayRule(sel, tray) ==
    /\ tray[2] = tray[1] + 5
    /\ \E k \in 0..MaxFibre : tray[1] = 6 * k + 1
    /\ (sel >= 1 => tray[1] <= sel /\ sel <= tray[2])
    /\ (sel = 0 => tray = <<1, 6>>)

\* C6: wherever a tray range is derived from a selected fibre, trayStart = 6k+1
\* for some k >= 0, trayEnd = trayStart + 5, trayStart <= selectedFibre <=
\* trayEnd when selectedFibre >= 1, and the tray is 1-6 when selectedFibre = 0.
C6_TrayEverywhere ==
    pc = "done" =>
        \A place \in DOMAIN ret :
            ret[place] # <<>> => TrayRule(SelectedFibre(arg.fibre_cable), ret[place])

(***************************************************************************)
(* Loading the input (process_data step 1).  A CSV file is its rows, each  *)
(* a sequence of cells; the markup path is taken from the point where      *)
(* _parse_vmr_html_details_direct has produced its mapped rows.            *)
(***************************************************************************)
MarkerText ==
    <<"F","i","b","r","e"," ","T","r","a","c","e"," ",
      "D","e","t","a","i","l","s">>

HasMarkerCell(row) == \E k \in 1..Len(row) : Contains(row[k], MarkerText)

MarkerRow_lenient(data) ==
    IF \E i \in 1..Len(data) : HasMarkerCell(data[i])
    THEN CHOOSE i \in 1..Len(data) :
             HasMarkerCell(data[i]) /\ \A j \in 1..(i - 1) : ~HasMarkerCell(data[j])
    ELSE 1

\* lines 7003-7011: the first row holding the marker, 0 when start_index is None
MarkerRow(data) ==
    IF \E i \in 1..Len(data) : HasMarkerCell(data[i])
    THEN CHOOSE i \in 1..Len(data) :
             HasMarkerCell(data[i]) /\ \A j \in 1..(i - 1) : ~HasMarkerCell(data[j])
    ELSE 0

\* "not row or not row[0].strip()"
BlankFirst(row) == row = <<>> \/ Strip(row[1]) = <<>>

\* lines 7038-7041: where the rows gathered for one cable stop
RECURSIVE SectionEnd(_, _)
SectionEnd(data, i) ==
    IF i <= Len(data) /\ BlankFirst(data[i]) THEN SectionEnd(data, i + 1) ELSE i

\* lines 7035-7041
cable_section(data, i) ==
    <<data[i]>> \o SelectSeq(SubSeq(data, i + 1, SectionEnd(data, i + 1) - 1),
                             LAMBDA r : r # <<>>)

\* a cell of a row padded with empty strings (line 7045)
Cell(row, k) == IF k <= Len(row) THEN row[k] ELSE <<>>

\* lines 7043-7119: the row appended for one cable section
CsvRecord(section, prev_has_conn) ==
    LET cable_info == section[1]
        a_end == Cell(cable_info, 2)
        fibre_cable == CleanCable(Cell(cable_info, 3))
        b_end == Cell(cable_info, 4)
        connect_disconnect == CleanConnect(Cell(cable_info, 5))
        selected_fibre == SelectedFibre(fibre_cable)
        curr_has_conn == Truthy(Strip(connect_disconnect))
    IN  [a_end |-> a_end, fibre_cable |-> fibre_cable, b_end |-> b_end,
         cd |-> connect_disconnect,
         tube |-> _calculate_tube(fibre_cable, TotalFibres(section),
                                  selected_fibre, a_end, b_end),
         tray |-> IF curr_has_conn \/ prev_has_conn
                  THEN CsvTray(selected_fibre) ELSE <<>>]

\* lines 7029-7119: the while loop, i the next row of data
RECURSIVE CsvLoop(_, _, _)
CsvLoop(data, i, rows) ==
    IF i > Len(data) THEN rows
    ELSE IF BlankFirst(data[i]) THEN CsvLoop(data, i + 1, rows)
    ELSE LET prev_has_conn == rows # <<>> /\ Truthy(Strip(rows[Len(rows)].cd))
         IN  CsvLoop(data, SectionEnd(data, i + 1),
                     Append(rows, CsvRecord(cable_section(data, i), prev_has_conn)))

process_csv_noHeader(data) ==
    IF MarkerRow(data) = 0 THEN [ok |-> FALSE, rows |-> <<>>]
    ELSE [ok |-> TRUE,
          rows |-> CsvLoop(SubSeq(data, MarkerRow(data) + 1, Len(data)), 1, <<>>)]

\* lines 6997-7121: ok is FALSE when ValueError is raised; the row after
\* the marker row is the file's header row and is never read
process_csv(data) ==
    IF MarkerRow(data) = 0 THEN [ok |-> FALSE, rows |-> <<>>]
    ELSE [ok |-> TRUE,
          rows |-> CsvLoop(SubSeq(data, MarkerRow(data) + 1, Len(data)), 2, <<>>)]

\* lines 7392-7423: one mapped row
VmrRecord(m) ==
    LET sel == SelectedFibre(m.fibre_cable)
    IN  [a_end |-> m.a_end, fibre_cable |-> m.fibre_cable, b_end |-> m.b_end,
         cd |-> m.conn,
         tube |-> _calculate_tube(m.fibre_cable, m.total_fib, sel, m.a_end, m.b_end),
         tray |-> VmrTray(m.conn, sel)]

\* lines 7380-7425
_normalize_vmr_rows(basic_rows) == [i \in 1..Len(basic_rows) |-> VmrRecord(basic_rows[i])]

\* lines 7343-7377: ok is FALSE when RuntimeError is raised
process_vmr(mapped) ==
    IF mapped = <<>> THEN [ok |-> FALSE, rows |-> <<>>]
    ELSE [ok |-> TRUE, rows |-> _normalize_vmr_rows(mapped)]

\* lines 7080 and 7404: one entry of selected_fibres per record, the number
\* of the record's "(#N)" token or 0
selected_fibres(rows) == [i \in 1..Len(rows) |-> SelectedFibre(rows[i].fibre_cable)]

majority_parity_all(fibres) ==
    LET even_count == Cardinality({i \in 1..Len(fibres) : fibres[i] % 2 = 0})
        odd_count == Len(fibres) - even_count
    IN  IF even_count > odd_count THEN "even"
        ELSE IF odd_count > even_count THEN "odd"
        ELSE "none"

\* lines 7467-7475: None is "none"
majority_parity(fibres) ==
    LET valid_fibres == {i \in 1..Len(fibres) : fibres[i] > 0}
        even_count == Cardinality({i \in valid_fibres : fibres[i] % 2 = 0})
        odd_count == Cardinality(valid_fibres) - even_count
    IN  IF even_count > odd_count THEN "even"
        ELSE IF odd_count > even_count THEN "odd"
        ELSE "none"

\* lines 7432-7461
LoadData(src, j) == IF src = "CSV" THEN process_csv(j.data) ELSE process_vmr(j.mapped)

(***************************************************************************)
(* The crawl list (process_data step 4).  The Cable table of the local     *)
(* database is taken to exist (db_available).                              *)
(***************************************************************************)
Cable ==
    { [NAME |-> <<"C","1">>, SEGMENT_ID |-> "S1"],
      [NAME |-> <<"B","L","S","2">>, SEGMENT_ID |-> "S2"] }

\* lines 7757-7775, 7566: SEGMENT_ID of the cable of that name, "" without one
fetch_cable_data(cable_name) ==
    IF \E r \in Cable : Upper(r.NAME) = Upper(Strip(cable_name))
    THEN (CHOOSE r \in Cable : Upper(r.NAME) = Upper(Strip(cable_name))).SEGMENT_ID
    ELSE ""

\* line 7555: cable_name.split("(")[0].strip()
KeyOf(cable_name) ==
    IF Find(cable_name, "(") = 0 THEN Strip(cable_name)
    ELSE Strip(SubSeq(cable_name, 1, Find(cable_name, "(") - 1))

\* lines 7545-7549: t_str
RowTray(row) == IF row.tray # <<>> THEN row.tray ELSE _derive_tray(row.fibre_cable)

\* lines 7551-7569: seg_id of one row
RowSeg(row) == IF RowTray(row) = <<>> THEN "" ELSE fetch_cable_data(KeyOf(row.fibre_cable))

\* lines 7571-7573
seg_by_row_index(rows) ==
    [i \in {k \in 1..Len(rows) : RowSeg(rows[k]) # ""} |-> RowSeg(rows[i])]

tray_by_row_index(rows) ==
    [i \in {k \in 1..Len(rows) : RowSeg(rows[k]) # ""} |-> RowTray(rows[i])]

\* lines 7574-7576: each segment once, in the order of its first row
RECURSIVE CrawlFrom(_, _, _)
CrawlFrom(rows, i, acc) ==
    IF i > Len(rows) THEN acc
    ELSE IF RowSeg(rows[i]) # "" /\ \A k \in 1..Len(acc) : acc[k] # RowSeg(rows[i])
    THEN CrawlFrom(rows, i + 1, Append(acc, RowSeg(rows[i])))
    ELSE CrawlFrom(rows, i + 1, acc)

to_crawl(rows) == CrawlFrom(rows, 1, <<>>)

(***************************************************************************)
(* The run (process_data steps 5 and 6) and the handlers.                  *)
(***************************************************************************)
CacheNow == [index |-> index, disk |-> diskIndex, files |-> files]

SetCache(c) == index' = c.index /\ diskIndex' = c.disk /\ files' = c.files

Fetches(seg_id) == IF seg_id \in DOMAIN fetches THEN fetches[seg_id] ELSE 0

\* lines 7594-7600: the flags pre-calculated for the rows of seg_id, row by row
RECURSIVE PreCalc(_, _, _, _, _)
PreCalc(c, rows, seg_id, parsed, i) ==
    IF i > Len(rows) THEN c
    ELSE IF i \in DOMAIN seg_by_row_index(rows) /\ seg_by_row_index(rows)[i] = seg_id
    THEN LET t == tray_by_row_index(rows)[i]
             sub == filter_rows_by_tray_range(parsed.rows, t)
         IN  PreCalc(set_tray_alert(c, seg_id, t, rows_have_alert(parsed.headers, sub)),
                     rows, seg_id, parsed, i + 1)
    ELSE PreCalc(c, rows, seg_id, parsed, i + 1)

\* lines 7594-7599: one more scan of the segment's rows (filter_rows_by_tray_range
\* and rows_have_alert) for every row of seg_id, whatever the memo holds
RECURSIVE PreCalcScans(_, _, _, _)
PreCalcScans(log, rows, seg_id, i) ==
    IF i > Len(rows) THEN log
    ELSE IF i \in DOMAIN seg_by_row_index(rows) /\ seg_by_row_index(rows)[i] = seg_id
    THEN LET key == <<seg_id, tray_by_row_index(rows)[i]>>
         IN  PreCalcScans(Put(log, key, (IF key \in DOMAIN log THEN log[key] ELSE 0) + 1),
                          rows, seg_id, i + 1)
    ELSE PreCalcScans(log, rows, seg_id, i + 1)

AfterFetch_abort(q, ok) == IF ok THEN Tail(q) ELSE <<>>

\* lines 7588, 7601-7605: the loop goes on to the next entry whatever happened
AfterFetch(q, ok) == Tail(q)

\* lines 7637-7665: the rows inserted into the tree, show_next_tray carried
RECURSIVE PopulateRows(_, _, _, _, _)
PopulateRows(rows, c, i, show_next_tray, acc) ==
    IF i > Len(rows) THEN acc
    ELSE LET row == rows[i]
             seg_id == IF i \in DOMAIN seg_by_row_index(rows)
                       THEN seg_by_row_index(rows)[i] ELSE ""
             real_tray == IF i \in DOMAIN tray_by_row_index(rows)
                          THEN tray_by_row_index(rows)[i] ELSE row.tray
             allow_tray == Truthy(Strip(row.cd)) \/ show_next_tray
             item == [cable |-> row.fibre_cable, cd |-> row.cd, tube |-> row.tube,
                      tray |-> IF allow_tray THEN real_tray ELSE <<>>,
                      dwdm |-> /\ seg_id # ""
                               /\ real_tray # <<>>
                               /\ tray_has_alert(c, seg_id, real_tray),
                      segment_id |-> seg_id]
         IN  PopulateRows(rows, c, i + 1, Truthy(Strip(row.cd)), Append(acc, item))

(***************************************************************************)
(* The inputs a Process click can read.                                    *)
(***************************************************************************)
MaxRecs == 2
MaxFetch == 2

PipeNames ==
    { NameWithTok(<<"C","1">>, 2), NameWithTok(<<"C","1">>, 8),
      NameWithTok(<<"B","L","S","2">>, 8), NameWithTok(<<"N","9">>, 2),
      <<"C","1">> }

PipeConns == { <<>>, <<"1",":","2">> }

Recs == [name : PipeNames, cd : PipeConns]

RecSeqs == UNION { [1..n -> Recs] : n \in 0..MaxRecs }

AEnd == <<"1","B","J","L">>
BEnd == <<"2","B","J","L">>

IsBackbone(name) == StartsWith(name, BLS)

\* the rows of one cable: its primary row and, for a backbone cable, two
\* continuation rows, the second naming the cable's size
RawRows(i, r) ==
    << <<DigitsOf(i), AEnd, r.name \o <<" ","x">>, BEnd, r.cd>> >>
    \o (IF IsBackbone(r.name)
        THEN << <<<<>>, <<>>, <<"d","u","c","t">> >>,
                <<<<>>, <<>>, <<"5","m",","," ","1","4","4","f","i","b","r","e","s">> >> >>
        ELSE <<>>)

Preamble == << <<"F","i","b","r","e"," ","T","r","a","c","e">> >>

FileHeader == << <<"C","a","b","l","e","#">>, <<"A","-","E","n","d">> >>

\* the same records as a CSV file, with or without the marker row, and as
\* the mapped rows of a VMR page
CsvData(recs, marked) ==
    <<Preamble>>
    \o (IF marked THEN << <<MarkerText>> >> ELSE <<>>)
    \o <<FileHeader>>
    \o Flatten([i \in 1..Len(recs) |-> RawRows(i, recs[i])])

VmrMapped(recs) ==
    [i \in 1..Len(recs) |->
        [a_end |-> AEnd, fibre_cable |-> recs[i].name, b_end |-> BEnd,
         conn |-> recs[i].cd,
         total_fib |-> IF IsBackbone(recs[i].name) THEN FullCable ELSE 0]]

Jobs ==
    { [data |-> CsvData(recs, TRUE), mapped |-> VmrMapped(recs)] : recs \in RecSeqs }
    \cup { [data |-> CsvData(recs, FALSE), mapped |-> VmrMapped(recs)] :
               recs \in [1..1 -> Recs] }

Responses == {"timeout", "404"} \cup Pages

IsPage(resp) == resp \in Pages

(***************************************************************************)
(* Spec: the application.                                                  *)
(***************************************************************************)
Init ==
    /\ crawl_enabled = TRUE
    /\ job \in Jobs
    /\ source_var = "CSV"
    /\ processed_data = <<>>
    /\ pc = "idle"
    /\ queue = <<>>
    /\ index = <<>>
    /\ diskIndex = <<>>
    /\ files = <<>>
    /\ tree = <<>>
    /\ dialog = "none"
    /\ fetches = <<>>
    /\ crawled = <<>>
    /\ scans = <<>>
    /\ log_text = {}
    /\ close_pending = FALSE
    /\ arg = <<>>
    /\ ret = <<>>

\* lines 7427-7432: the Process button; a run begins
ProcessData ==
    /\ pc = "idle"
    /\ ~close_pending
    /\ pc' = "load"
    /\ fetches' = <<>>
    /\ log_text' = {"Starting processing..."}
    /\ UNCHANGED <<crawl_enabled, job, source_var, processed_data, queue, index,
                   diskIndex, files, tree, dialog, crawled, scans, close_pending, arg, ret>>

Load_clearFirst ==
    /\ pc = "load"
    /\ LET loaded == LoadData(source_var, job)
           LoadLines == IF source_var = "CSV" THEN {"Reading CSV"}
                        ELSE {"Connecting to VMR", "VMR data parsed successfully."}
       IN  IF loaded.ok
           THEN /\ processed_data' = loaded.rows
                /\ tree' = <<>>
                /\ SetCache(CrossSectionCache(clear(CacheNow)))
                /\ queue' = IF crawl_enabled THEN to_crawl(loaded.rows) ELSE <<>>
                /\ crawled' = <<>>
                /\ scans' = <<>>
                /\ log_text' = log_text \cup LoadLines
                       \cup (IF majority_parity(selected_fibres(loaded.rows)) # "none"
                             THEN {"Majority Parity detected"} ELSE {})
                       \cup (IF crawl_enabled /\ to_crawl(loaded.rows) # <<>>
                             THEN {"Crawling cross-sections..."} ELSE {})
                /\ dialog' = "none"
                /\ pc' = "crawl"
           ELSE /\ dialog' = "Error"
                /\ log_text' = log_text \cup {IF source_var = "CSV" THEN "Reading CSV"
                                               ELSE "Connecting to VMR",
                                               "CRITICAL ERROR"}
                /\ pc' = "idle"
                /\ tree' = <<>>
                /\ SetCache(CrossSectionCache(clear(CacheNow)))
                /\ UNCHANGED <<processed_data, queue, crawled, scans>>
    /\ UNCHANGED <<crawl_enabled, job, source_var, fetches, close_pending, arg, ret>>

\* lines 7434-7576: the input is loaded, the table and the cache are
\* cleared and the crawl list is built; a load that raises is caught at
\* 7753-7756 and the handler returns
Load ==
    /\ pc = "load"
    /\ LET loaded == LoadData(source_var, job)
           LoadLines == IF source_var = "CSV" THEN {"Reading CSV"}
                        ELSE {"Connecting to VMR", "VMR data parsed successfully."}
       IN  IF loaded.ok
           THEN /\ processed_data' = loaded.rows
                /\ tree' = <<>>
                /\ SetCache(CrossSectionCache(clear(CacheNow)))
                /\ queue' = IF crawl_enabled THEN to_crawl(loaded.rows) ELSE <<>>
                /\ crawled' = <<>>
                /\ scans' = <<>>
                /\ log_text' = log_text \cup LoadLines
                       \cup (IF majority_parity(selected_fibres(loaded.rows)) # "none"
                             THEN {"Majority Parity detected"} ELSE {})
                       \cup (IF crawl_enabled /\ to_crawl(loaded.rows) # <<>>
                             THEN {"Crawling cross-sections..."} ELSE {})
                /\ dialog' = "none"
                /\ pc' = "crawl"
           ELSE /\ dialog' = "Error"
                /\ log_text' = log_text \cup {IF source_var = "CSV" THEN "Reading CSV"
                                               ELSE "Connecting to VMR",
                                               "CRITICAL ERROR"}
                /\ pc' = "idle"
                /\ UNCHANGED <<processed_data, tree, index, diskIndex, files, queue,
                               crawled, scans>>
    /\ UNCHANGED <<crawl_enabled, job, source_var, fetches, close_pending, arg, ret>>

\* lines 7588-7605: one turn of the crawl loop
CrawlStep(resp) ==
    /\ pc = "crawl"
    /\ queue # <<>>
    /\ LET seg_id == Head(queue)
       IN  /\ fetches' = Put(fetches, seg_id, Fetches(seg_id) + 1)
           /\ crawled' = Put(crawled, seg_id, IF IsPage(resp) THEN "stored" ELSE "failed")
           /\ IF IsPage(resp)
              THEN /\ SetCache(PreCalc(put_html(CacheNow, seg_id, resp), processed_data,
                                         seg_id, parse_gridview2(PageText(resp)), 1))
                   /\ scans' = PreCalcScans(scans, processed_data, seg_id, 1)
              ELSE UNCHANGED <<index, diskIndex, files, scans>>
    /\ queue' = AfterFetch(queue, IsPage(resp))
    /\ UNCHANGED <<crawl_enabled, job, source_var, processed_data, pc, tree, dialog,
                   log_text, close_pending, arg, ret>>

\* lines 7612-7751: the result table is filled and the handler returns
Populate ==
    /\ pc = "crawl"
    /\ queue = <<>>
    /\ tree' = PopulateRows(processed_data, CacheNow, 1, FALSE, <<>>)
    /\ processed_data' = <<>>
    /\ log_text' = log_text \cup {"Processing finished."}
    /\ pc' = "idle"
    /\ UNCHANGED <<crawl_enabled, job, source_var, queue, index, diskIndex, files,
                   dialog, fetches, crawled, scans, close_pending, arg, ret>>

\* lines 6672-6715: a double click on the Fibre Tray cell of row i passes the guards
ClickPasses(i) ==
    /\ pc = "idle"
    /\ ~close_pending
    /\ i \in 1..Len(tree)
    /\ crawl_enabled
    /\ tree[i].tray # <<>>
    /\ tree[i].segment_id # ""

\* lines 6717-6727 with a page in the cache: no request is made
OnTreeDoubleClickCached(i) ==
    /\ ClickPasses(i)
    /\ HtmlTruthy(get_html(CacheNow, tree[i].segment_id))
    /\ SetCache(rows_for(headers_for(CacheNow, tree[i].segment_id), tree[i].segment_id))
    /\ dialog' = "viewer"
    /\ UNCHANGED <<crawl_enabled, job, source_var, processed_data, pc, queue, tree, fetches,
                   crawled, scans, log_text,
                   close_pending, arg, ret>>

\* lines 6717-6732 without one: the page is requested
OnTreeDoubleClickFetch(i, resp) ==
    /\ ClickPasses(i)
    /\ ~HtmlTruthy(get_html(CacheNow, tree[i].segment_id))
    /\ Fetches(tree[i].segment_id) < MaxFetch
    /\ fetches' = Put(fetches, tree[i].segment_id, Fetches(tree[i].segment_id) + 1)
    /\ IF IsPage(resp)
       THEN /\ SetCache(rows_for(headers_for(put_html(CacheNow, tree[i].segment_id, resp),
                                             tree[i].segment_id),
                                 tree[i].segment_id))
            /\ dialog' = "viewer"
       ELSE /\ dialog' = "Parse Error"
            /\ UNCHANGED <<index, diskIndex, files>>
    /\ UNCHANGED <<crawl_enabled, job, source_var, processed_data, pc, queue, tree, crawled, scans,
                   log_text, close_pending, arg, ret>>

\* the "Connect VMR" check box (line 6374)
ToggleCrawl ==
    /\ pc = "idle"
    /\ ~close_pending
    /\ crawl_enabled' = ~crawl_enabled
    /\ UNCHANGED <<job, source_var, processed_data, pc, queue, index, diskIndex,
                   files, tree, dialog, fetches, crawled, scans, log_text,
                   close_pending, arg, ret>>

\* lines 6345-6352, 6415-6431: the Source selector; choosing VMR ticks
\* "Connect VMR"
_toggle_source_inputs ==
    /\ pc = "idle"
    /\ ~close_pending
    /\ source_var' = IF source_var = "CSV" THEN "VMR" ELSE "CSV"
    /\ crawl_enabled' = IF source_var = "CSV" THEN TRUE ELSE crawl_enabled
    /\ UNCHANGED <<job, processed_data, pc, queue, index, diskIndex,
                   files, tree, dialog, fetches, crawled, scans, log_text,
                   close_pending, arg, ret>>

\* lines 6505-6513
_on_close ==
    /\ pc = "idle"
    /\ SetCache(clear(CacheNow))
    /\ close_pending' = FALSE
    /\ pc' = "closed"
    /\ UNCHANGED <<crawl_enabled, job, source_var, processed_data, queue, tree, dialog, fetches,
                   crawled, scans, log_text, arg, ret>>

\* line 6333: the user closes the window while the crawl loop of
\* process_data runs; the handler runs to its end first (the loop calls
\* update_idletasks only, lines 7586, 7604) and _on_close is served when it
\* has returned
RequestClose ==
    /\ pc = "crawl"
    /\ ~close_pending
    /\ close_pending' = TRUE
    /\ UNCHANGED <<crawl_enabled, job, source_var, processed_data, pc, queue, index,
                   diskIndex, files, tree, dialog, fetches, crawled, scans, log_text,
                   arg, ret>>

Next ==
    \/ ProcessData
    \/ Load
    \/ \E resp \in Responses : CrawlStep(resp)
    \/ Populate
    \/ \E i \in 1..MaxRecs : OnTreeDoubleClickCached(i)
    \/ \E i \in 1..MaxRecs, resp \in Responses : OnTreeDoubleClickFetch(i, resp)
    \/ ToggleCrawl
    \/ _toggle_source_inputs
    \/ _on_close
    \/ RequestClose

Spec == Init /\ [][Next]_vars

SegIds == { r.SEGMENT_ID : r \in Cable }

CacheEmpty == index = <<>> /\ diskIndex = <<>> /\ files = <<>>

PageStored(seg_id) == seg_id \in DOMAIN files /\ ~PageText(files[seg_id]).blank

C3_FailureDoesNotAbort ==
    [][(pc = "crawl" /\ pc' = "idle") =>
          /\ \A k \in 1..Len(to_crawl(processed_data)) :
                 crawl_enabled => to_crawl(processed_data)[k] \in DOMAIN crawled
          /\ Len(tree') = Len(processed_data)
          /\ \A i \in 1..Len(tree') :
                 LET seg_id == tree'[i].segment_id
                 IN  (seg_id \in DOMAIN crawled /\ (crawled[seg_id] = "failed"
                                                    \/ ~PageText(files[seg_id]).grid)) =>
                         /\ ~tree'[i].dwdm
                         /\ \A t \in {TrayOf(n) : n \in 1..MaxFibre} :
                                ~tray_has_alert(CacheNow, seg_id, t)]_vars

C3_Witness ==
    /\ pc = "idle"
    /\ Len(tree) = 2
    /\ tree[1].segment_id \in DOMAIN crawled
    /\ tree[2].segment_id \in DOMAIN crawled
    /\ crawled[tree[1].segment_id] = "failed"
    /\ crawled[tree[2].segment_id] = "stored"
    /\ ~tree[1].dwdm
    /\ tree[2].dwdm

NoMarker(data) == \A i \in 1..Len(data) : \A k \in 1..Len(data[i]) : ~Contains(data[i][k], MarkerText)

\* C4: when no row of the CSV input holds "Fibre Trace Details" the run
\* aborts while loading: an error is shown, no record is produced, no
\* segment is fetched and the table and the cache stay as they were.
C4_MarkerMissingAborts ==
    [][(pc = "load" /\ source_var = "CSV" /\ NoMarker(job.data)) =>
          /\ pc' = "idle"
          /\ dialog' = "Error"
          /\ tree' = tree
          /\ fetches' = <<>>
          /\ queue' = queue
          /\ index' = index /\ diskIndex' = diskIndex /\ files' = files]_vars

C4_Witness ==
    /\ pc = "idle"
    /\ dialog = "Error"
    /\ source_var = "CSV"
    /\ NoMarker(job.data)
    /\ Len(job.data) > 2
    /\ fetches = <<>>

HasConn(row) == Truthy(Strip(row.cd))

\* C5: record i's tray is visible if and only if record i's own
\* connectDisconnect is non-empty or the immediately preceding record's is.
C5_VisibilityCarry ==
    pc = "idle" =>
        \A i \in 1..Len(tree) :
            (tree[i].tray # <<>>) <=> (HasConn(tree[i]) \/ (i > 1 /\ HasConn(tree[i - 1])))

\* C7: a segmentId is put on the crawl list and fetched only if at least
\* one record with a visible tray resolves to it.
C7_HiddenNotCrawled ==
    pc = "idle" =>
        \A seg_id \in DOMAIN crawled :
            \E i \in 1..Len(tree) : tree[i].segment_id = seg_id /\ tree[i].tray # <<>>

(***************************************************************************)
(* SpecAlert: rows_have_alert applied to header lists in several cases and *)
(* orders and to rows of one or two cells, as parse_gridview2 hands them   *)
(* over (cells stripped).                                                  *)
(***************************************************************************)
MaxAlertRows == 2

AlertHeaders ==
    { << <<"O","S"," ","N","a","m","e">>, <<"B","e","a","r","e","r"," ","I","D">> >>,
      << <<"o","s"," ","n","a","m","e">>, <<"B","E","A","R","E","R"," ","I","D">> >>,
      << <<"B","e","a","r","e","r"," ","I","D">>, <<"O","S"," ","N","A","M","E">> >>,
      << <<"O","S"," ","N","a","m","e">> >>,
      << <<"B","e","a","r","e","r"," ","I","D">> >>,
      << <<"O","S"," ","N","a","m","e">>, <<"O","S"," ","N","a","m","e">>,
         <<"B","e","a","r","e","r"," ","I","D">> >>,
      << <<"N","a","m","e">>, <<"I","D">> >>,
      <<>> }

AlertCells ==
    { <<"T","_","1">>, <<"t","_","x">>, <<"A","T","_">>, <<"O","T","S">>,
      <<"x","d","w","d","m","y">>, <<"G","E">>, <<>> }

AlertRowSet == UNION { [1..n -> AlertCells] : n \in 1..2 }

AlertArgs ==
    [headers : AlertHeaders,
     rows : UNION { [1..n -> AlertRowSet] : n \in 0..MaxAlertRows }]

InitAlert ==
    /\ Parked
    /\ pc = "call"
    /\ arg \in AlertArgs
    /\ ret = FALSE

Evaluate ==
    /\ pc = "call"
    /\ pc' = "done"
    /\ ret' = rows_have_alert(arg.headers, arg.rows)
    /\ UNCHANGED <<arg, PipelineVars>>

NextAlert == Evaluate

SpecAlert == InitAlert /\ [][NextAlert]_vars

\* the column located by case-insensitive header name: the last header of
\* that name, none when the set is empty
ColumnsNamed(headers, name) == {i \in 1..Len(headers) : Lower(headers[i]) = name}

Located(headers, name, i) ==
    i \in ColumnsNamed(headers, name) /\ \A j \in ColumnsNamed(headers, name) : j <= i

\* C8: the evaluation is true if and only if some row has an "OS Name" cell
\* starting with "T_" or a "Bearer ID" cell containing "OTS" or "DWDM", case
\* ignored, columns located by case-insensitive header name; a column that
\* cannot be located contributes no alert.
C8_AlertRule ==
    pc = "done" =>
        (ret <=>
            \E k \in 1..Len(arg.rows) :
                \/ \E i \in 1..Len(arg.rows[k]) :
                       /\ Located(arg.headers, OsName, i)
                       /\ StartsWith(Lower(arg.rows[k][i]), <<"t","_">>)
                \/ \E i \in 1..Len(arg.rows[k]) :
                       /\ Located(arg.headers, BearerId, i)
                       /\ \/ Contains(Lower(arg.rows[k][i]), <<"o","t","s">>)
                          \/ Contains(Lower(arg.rows[k][i]), <<"d","w","d","m">>))

C8_Witness ==
    /\ pc = "done"
    /\ ret = TRUE
    /\ Len(arg.rows) = 2
    /\ arg.headers[1] = <<"B","e","a","r","e","r"," ","I","D">>
    /\ arg.rows[1] = << <<"G","E">>, <<"G","E">> >>
    /\ arg.rows[2] = << <<"G","E">>, <<"t","_","x">> >>

(***************************************************************************)
(* SpecCache: the operations of CrossSectionCache called in any order on   *)
(* two segments and two tray ranges.  arg is the last call, ret what the   *)
(* last tray_has_alert returned.                                           *)
(***************************************************************************)
CacheSegs == {"S1", "S2"}

CacheTrays == { <<1, 6>>, <<7, 12>> }

CachePages == {"blank", "grid"}

Call(op, seg_id, tray_str, flag, html) ==
    [op |-> op, seg |-> seg_id, tray |-> tray_str, flag |-> flag, html |-> html]

OtherVars ==
    <<crawl_enabled, job, source_var, processed_data, queue, tree, dialog,
      fetches, crawled, scans, log_text, close_pending>>

InitCache ==
    /\ Parked
    /\ pc = "cache"
    /\ arg = Call("__init__", "", <<>>, FALSE, "")
    /\ ret = FALSE

PutHtml(seg_id, html) ==
    /\ pc = "cache"
    /\ SetCache(put_html(CacheNow, seg_id, html))
    /\ arg' = Call("put_html", seg_id, <<>>, FALSE, html)
    /\ UNCHANGED <<pc, ret, OtherVars>>

SetTrayAlert(seg_id, tray_str, flag) ==
    /\ pc = "cache"
    /\ SetCache(set_tray_alert(CacheNow, seg_id, tray_str, flag))
    /\ arg' = Call("set_tray_alert", seg_id, tray_str, flag, "")
    /\ UNCHANGED <<pc, ret, OtherVars>>

TrayHasAlert(seg_id, tray_str) ==
    /\ pc = "cache"
    /\ ret' = tray_has_alert(CacheNow, seg_id, tray_str)
    /\ arg' = Call("tray_has_alert", seg_id, tray_str, FALSE, "")
    /\ UNCHANGED <<pc, index, diskIndex, files, OtherVars>>

HeadersFor(seg_id) ==
    /\ pc = "cache"
    /\ SetCache(headers_for(CacheNow, seg_id))
    /\ arg' = Call("headers_for", seg_id, <<>>, FALSE, "")
    /\ UNCHANGED <<pc, ret, OtherVars>>

RowsFor(seg_id) ==
    /\ pc = "cache"
    /\ SetCache(rows_for(CacheNow, seg_id))
    /\ arg' = Call("rows_for", seg_id, <<>>, FALSE, "")
    /\ UNCHANGED <<pc, ret, OtherVars>>

Clear ==
    /\ pc = "cache"
    /\ SetCache(clear(CacheNow))
    /\ arg' = Call("clear", "", <<>>, FALSE, "")
    /\ UNCHANGED <<pc, ret, OtherVars>>

NextCache ==
    \/ \E seg_id \in CacheSegs, html \in CachePages : PutHtml(seg_id, html)
    \/ \E seg_id \in CacheSegs, t \in CacheTrays, flag \in BOOLEAN :
           SetTrayAlert(seg_id, t, flag)
    \/ \E seg_id \in CacheSegs, t \in CacheTrays : TrayHasAlert(seg_id, t)
    \/ \E seg_id \in CacheSegs : HeadersFor(seg_id)
    \/ \E seg_id \in CacheSegs : RowsFor(seg_id)
    \/ Clear

SpecCache == InitCache /\ [][NextCache]_vars

CacheNext == [index |-> index', disk |-> diskIndex', files |-> files']

HasMemo(c, seg_id, tray_str) ==
    seg_id \in DOMAIN c.index /\ tray_str \in DOMAIN c.index[seg_id].has_alert_by_tray

\* C14: tray_has_alert is false when the cache has no entry for the segment
\* or the entry has no memo for the tray; a set_tray_alert on a stored entry
\* makes it return the flag just set, no other call changes the flag of a
\* memo (it can only drop it), and a set_tray_alert on a segment with no
\* entry changes nothing.
C14_MemoReadWrite ==
    [][/\ \A seg_id \in CacheSegs, t \in CacheTrays :
              ~HasMemo(CacheNext, seg_id, t) => ~tray_has_alert(CacheNext, seg_id, t)
       /\ arg'.op = "set_tray_alert" =>
              IF arg'.seg \in DOMAIN index
              THEN tray_has_alert(CacheNext, arg'.seg, arg'.tray) = arg'.flag
              ELSE CacheNext = CacheNow
       /\ \A seg_id \in CacheSegs, t \in CacheTrays :
              (HasMemo(CacheNext, seg_id, t)
               /\ ~(arg'.op = "set_tray_alert" /\ arg'.seg = seg_id /\ arg'.tray = t)) =>
                  /\ HasMemo(CacheNow, seg_id, t)
                  /\ tray_has_alert(CacheNext, seg_id, t)
                         = tray_has_alert(CacheNow, seg_id, t)
       /\ arg'.op = "tray_has_alert" =>
              ret' = (HasMemo(CacheNow, arg'.seg, arg'.tray)
                      /\ index[arg'.seg].has_alert_by_tray[arg'.tray])]_vars

C14_Witness ==
    /\ pc = "cache"
    /\ arg.op = "tray_has_alert"
    /\ ret = TRUE
    /\ HasMemo(CacheNow, arg.seg, <<1, 6>>)
    /\ HasMemo(CacheNow, arg.seg, <<7, 12>>)
    /\ tray_has_alert(CacheNow, arg.seg, <<1, 6>>) # tray_has_alert(CacheNow, arg.seg, <<7, 12>>)
    /\ \E other \in CacheSegs : other \notin DOMAIN index

\* the call just made is op on segment seg_id
Called(op, seg_id) == arg'.op = op /\ arg'.seg = seg_id

\* C29: once set_tray_alert(seg, tray, true) has been applied to a stored
\* entry, tray_has_alert(seg, tray) stays true under put_html, headers_for,
\* rows_for, tray_has_alert and set_tray_alert on other keys, until clear.
C29_AsClaimed ==
    [][\A seg_id \in CacheSegs, t \in CacheTrays :
          (/\ tray_has_alert(CacheNow, seg_id, t)
           /\ arg'.op # "clear"
           /\ ~(Called("set_tray_alert", seg_id) /\ arg'.tray = t))
              => tray_has_alert(CacheNext, seg_id, t)]_vars

\* C29 as amended: ... until clear or a put_html of the same segment.
C29_MemoStable ==
    [][\A seg_id \in CacheSegs, t \in CacheTrays :
          (/\ tray_has_alert(CacheNow, seg_id, t)
           /\ arg'.op # "clear"
           /\ ~Called("put_html", seg_id)
           /\ ~(Called("set_tray_alert", seg_id) /\ arg'.tray = t))
              => tray_has_alert(CacheNext, seg_id, t)]_vars

C29_Witness ==
    /\ pc = "cache"
    /\ arg.op = "rows_for"
    /\ HtmlTruthy(get_html(CacheNow, arg.seg))
    /\ tray_has_alert(CacheNow, arg.seg, <<1, 6>>)
    /\ \E other \in CacheSegs :
          other # arg.seg /\ HasMemo(CacheNow, other, <<1, 6>>)
                          /\ ~tray_has_alert(CacheNow, other, <<1, 6>>)

RoutineLines ==
    {"Starting processing...", "Reading CSV", "Connecting to VMR",
     "VMR data parsed successfully.", "Majority Parity detected",
     "Crawling cross-sections...", "Processing finished."}

\* a fetch failed, a cable resolved to no segment, or a name had no "(#N)"
IssueOccurred ==
    \/ \E s \in DOMAIN crawled : crawled[s] = "failed"
    \/ \E i \in 1..Len(tree) : tree[i].segment_id = ""
    \/ \E i \in 1..Len(tree) : SelectedFibre(tree[i].cable) = 0

C17_NoTokenStillParsed ==
    [][(pc = "load" /\ pc' = "crawl") =>
          /\ Len(processed_data') = Len(job.mapped)
          /\ \A i \in 1..Len(job.mapped) :
                /\ StartsWith(processed_data'[i].fibre_cable, <<Head(job.mapped[i].fibre_cable)>>)
                /\ Find(job.mapped[i].fibre_cable, "(") = 0 =>
                      /\ selected_fibres(processed_data')[i] = 0
                      /\ StartsWith(processed_data'[i].fibre_cable, job.mapped[i].fibre_cable)
      ]_vars

C17_Witness ==
    /\ pc = "crawl"
    /\ source_var = "CSV"
    /\ Len(processed_data) = 2
    /\ Find(processed_data[1].fibre_cable, "(") = 0
    /\ selected_fibres(processed_data) = <<0, 8>>

\* no cable of the database has the name's key
Unresolved(cable_name) == \A r \in Cable : r.NAME # KeyOf(cable_name)

\* the table of a finished run treats the records without segment as told
LookupMissOk ==
    /\ Len(tree) = Len(job.mapped)
    /\ ((\A i \in 1..Len(tree) : Unresolved(tree[i].cable)) => fetches = <<>>)
    /\ \A i \in 1..Len(tree) :
          Unresolved(tree[i].cable) =>
              /\ tree[i].segment_id = ""
              /\ ~tree[i].dwdm
              /\ tree[i].tube = _calculate_tube(tree[i].cable, 0,
                                                SelectedFibre(tree[i].cable), AEnd, BEnd)
              /\ ( /\ HasConn(tree[i]) \/ (i > 1 /\ HasConn(tree[i - 1]))
                   /\ SelectedFibre(tree[i].cable) > 0 )
                 => tree[i].tray = TrayOf(SelectedFibre(tree[i].cable))

\* C18: a record whose cable name resolves to no segment identifier is
\* still emitted with its classification and its tray, triggers no fetch
\* and never carries a true alert flag; the records after it are emitted
\* as well.
C18_LookupMiss ==
    [][(pc = "crawl" /\ pc' = "idle") => LookupMissOk']_vars

(***************************************************************************)
(* SpecParity: the parity statistic of process_data applied to every list  *)
(* of up to MaxParity selected fibres, 0 standing for a record without     *)
(* "(#N)".                                                                 *)
(***************************************************************************)
MaxParity == 10

InitParity ==
    /\ Parked
    /\ pc = "call"
    /\ arg \in UNION { [1..n -> {0, 1, 2}] : n \in 0..MaxParity }
    /\ ret = ""

ComputeParity ==
    /\ pc = "call"
    /\ pc' = "done"
    /\ ret' = majority_parity(arg)
    /\ UNCHANGED <<arg, PipelineVars>>

SpecParity == InitParity /\ [][ComputeParity]_vars

Evens == Cardinality({i \in DOMAIN arg : arg[i] > 0 /\ arg[i] % 2 = 0})
Odds == Cardinality({i \in DOMAIN arg : arg[i] > 0 /\ arg[i] % 2 = 1})

\* C19: the parity statistic counts only the records with a selected fibre
\* above 0; it is "even" when the evens strictly outnumber the odds, "odd"
\* when the odds strictly outnumber the evens and none on a tie, the list
\* without any positive fibre included; 7 odd and 3 even give "odd".
C19_Parity ==
    pc = "done" =>
        /\ (Evens > Odds => ret = "even")
        /\ (Odds > Evens => ret = "odd")
        /\ (Evens = Odds => ret = "none")

C19_Witness ==
    /\ pc = "done"
    /\ Len(arg) = MaxParity
    /\ Odds = 7
    /\ Evens = 3
    /\ ret = "odd"

\* C21: a run can be cancelled: once the user has asked the program to
\* stop, the run starts no further fetch (and still hands out the records
\* computed so far).
C21_CancelStopsFetches ==
    [][(close_pending /\ pc = "crawl") => fetches' = fetches]_vars

(***************************************************************************)
(* SpecTable: parse_gridview2, filter_rows_by_tray_range and               *)
(* rows_have_alert applied to GridView2 tables of up to MaxTrs rows of     *)
(* several shapes (a thead row, th and td rows of one to three cells, a    *)
(* row without cells) and to the tray ranges "start-end" with start <= end *)
(* that the tray derivations hand over.                                    *)
(***************************************************************************)
MaxTrs == 3

InitTable ==
    LET td(text) == <<"td", text>>
        th(text) == <<"th", text>>
        shapes == { HeaderTr,
                    [thead |-> FALSE, cells |-> <<th(OsName), th(<<"I","D">>)>>],
                    [thead |-> FALSE, cells |-> <<td(OsName)>>],
                    [thead |-> FALSE, cells |-> <<td(<<"T","_","1">>), td(<<"G","E">>)>>],
                    [thead |-> FALSE, cells |-> <<td(<<"R","1">>), td(<<"G","E">>), td(<<"x">>)>>],
                    [thead |-> FALSE, cells |-> <<>>] }
    IN  /\ Parked
        /\ pc = "call"
        /\ arg \in [page : { [blank |-> FALSE, grid |-> TRUE, trs |-> trs] :
                               trs \in UNION { [1..n -> shapes] : n \in 0..MaxTrs } },
                    tray : { t \in (0..(MaxTrs + 1)) \X (1..(MaxTrs + 2)) : t[1] <= t[2] }]
        /\ ret = <<>>

\* lines 7592-7599 on one page: the table, the rows of the tray, the flag
ParseAndFilter ==
    /\ pc = "call"
    /\ pc' = "done"
    /\ LET table == parse_gridview2(arg.page)
           subset == filter_rows_by_tray_range(table.rows, arg.tray)
       IN  ret' = [headers |-> table.headers, rows |-> table.rows, subset |-> subset,
                   flag |-> rows_have_alert(table.headers, subset)]
    /\ UNCHANGED <<arg, PipelineVars>>

SpecTable == InitTable /\ [][ParseAndFilter]_vars

ClipLo == Max(1, arg.tray[1])
ClipHi == Min(Len(ret.rows), arg.tray[2])

C23_Rectangular ==
    pc = "done" =>
        /\ \A i \in 1..Len(ret.rows) : Len(ret.rows[i]) = Len(ret.headers)
        /\ (ret.headers # <<>> => Len(ret.rows) < Len(arg.page.trs))

\* the rows of the CSV file after row m whose first field is not blank
Openers(m) == {i \in (m + 1)..Len(job.data) : ~BlankFirst(job.data[i])}

\* the first row of the file that holds the marker
MarkerAt ==
    CHOOSE i \in 1..Len(job.data) :
        HasMarkerCell(job.data[i]) /\ \A j \in 1..(i - 1) : ~HasMarkerCell(job.data[j])

\* the records loaded are the rows of Openers(m), one each, in their order
RecordsFrom(m, rows) ==
    /\ Len(rows) = Cardinality(Openers(m))
    /\ \A i \in Openers(m) :
          LET k == Cardinality({j \in Openers(m) : j <= i})
          IN  k <= Len(rows) /\ rows[k].fibre_cable = CleanCable(job.data[i][3])

\* C24: the rows up to and including the marker row are the preamble;
\* every later row with a non-blank first field yields exactly one record,
\* in input order, and rows with a blank first field yield none.
C24_AsClaimed ==
    [][(pc = "load" /\ source_var = "CSV" /\ pc' = "crawl")
          => RecordsFrom(MarkerAt, processed_data')]_vars

\* C24 as amended: the row after the marker row, the file's header row, is
\* consumed with the preamble.
C24_AfterHeaderRow ==
    [][(pc = "load" /\ source_var = "CSV" /\ pc' = "crawl")
          => RecordsFrom(MarkerAt + 1, processed_data')]_vars

C24_Witness ==
    /\ pc = "crawl"
    /\ source_var = "CSV"
    /\ Len(processed_data) = 2
    /\ IsBackbone(processed_data[1].fibre_cable)
    /\ Len(job.data) = 7

\* C26: a record emitted with an empty tray never carries a true alert
\* flag, whatever the other records of its segment show.
C26_HiddenNoAlert ==
    [][(pc = "crawl" /\ pc' = "idle") =>
          \A i \in 1..Len(tree') : tree'[i].tray = <<>> => ~tree'[i].dwdm]_vars

\* C27: for the same sequence of logical records the rows of the VMR page
\* and the rows of the CSV file are loaded with the same Tube and the same
\* Fibre Tray, record by record.
C27_SameRecords ==
    [][(pc = "load" /\ pc' = "crawl" /\ process_csv(job.data).ok /\ process_vmr(job.mapped).ok) =>
          LET csv == process_csv(job.data).rows
              vmr == process_vmr(job.mapped).rows
          IN  /\ processed_data' \in {csv, vmr}
              /\ Len(csv) = Len(vmr)
              /\ \A i \in 1..Len(csv) :
                    csv[i].tube = vmr[i].tube /\ csv[i].tray = vmr[i].tray]_vars

====
